---- MODULE Spec2Model ----
(***************************************************************************)
(* Model of src/heartbeater/drcom/pppoe.rs: the DrCOM PPPoE heartbeat      *)
(* packet layer (checksum strategies, the word-XOR checksum, the challenge *)
(* request encoder, the challenge response decoder and the heartbeat       *)
(* request encoder).                                                       *)
(*                                                                         *)
(* Representation.  TLC's integers are 32-bit signed, so a u32 of the      *)
(* program is held as its four base-256 digits, least significant first    *)
(* (<<d0, d1, d2, d3>> stands for d0 + 256*d1 + 65536*d2 + 16777216*d3).   *)
(* All u32 arithmetic (xor, wrapping multiplication, remainder) is done on *)
(* the digits, keeping the 32-bit width.  A byte buffer (&[u8], Vec<u8>)   *)
(* is a sequence of 0..255.  The byte order of the build target            *)
(* (NativeEndian) is the variable endian, chosen once in Init.             *)
(***************************************************************************)
EXTENDS Integers, Sequences, FiniteSets, TLC

VARIABLES endian, pc, op, args, ret, input, locals

vars == <<endian, pc, op, args, ret, input, locals>>

-----------------------------------------------------------------------------
(* Bounds of the model.                                                    *)

\* longest buffer over BufAlphabet handed to hash / calculate_drcom_crc32
MaxBufLen == 8
\* most bytes that follow the 16 parsed bytes of a challenge response stream
MaxTrail == 1

-----------------------------------------------------------------------------
(* u8 / u32 arithmetic on base-256 digits.                                 *)

Byte == 0..255

RECURSIVE XorBits(_, _)
XorBits(a, b) ==
    IF a = 0 THEN b
    ELSE IF b = 0 THEN a
    ELSE (((a % 2) + (b % 2)) % 2) + 2 * XorBits(a \div 2, b \div 2)

\* u32 of a literal below 2^31
U32(n) == << n % 256, (n \div 256) % 256, (n \div 65536) % 256, (n \div 16777216) % 256 >>

\* a ^ b on u32
XorU32(a, b) == [i \in 1..4 |-> XorBits(a[i], b[i])]

\* Wrapping(a) * Wrapping(b) on u32: schoolbook product of the digits, the
\* digits of weight 256^4 and above dropped (the product modulo 2^32)
WrappingMul(a, b) ==
    LET col(k) == IF k = 1 THEN a[1]*b[1]
                  ELSE IF k = 2 THEN a[1]*b[2] + a[2]*b[1]
                  ELSE IF k = 3 THEN a[1]*b[3] + a[2]*b[2] + a[3]*b[1]
                  ELSE a[1]*b[4] + a[2]*b[3] + a[3]*b[2] + a[4]*b[1]
        s1 == col(1)
        s2 == col(2) + (s1 \div 256)
        s3 == col(3) + (s2 \div 256)
        s4 == col(4) + (s3 \div 256)
    IN  << s1 % 256, s2 % 256, s3 % 256, s4 % 256 >>

\* a % m on u32, for a small modulus m (long division from the top digit)
RemU32(a, m) == ((((((a[4] % m) * 256 + a[3]) % m) * 256 + a[2]) % m) * 256 + a[1]) % m

-----------------------------------------------------------------------------
(* byteorder: NativeEndian / NetworkEndian reads and writes.               *)

\* NetworkEndian::read_u32 / the big-endian encoding of a u32
NetworkEndian_read_u32(bytes) == << bytes[4], bytes[3], bytes[2], bytes[1] >>
NetworkEndian_write_u32(v) == << v[4], v[3], v[2], v[1] >>

\* NativeEndian::write_u32(buf, v): the four bytes written, in the order of the target
NativeEndian_write_u32(e, v) ==
    IF e = "little" THEN << v[1], v[2], v[3], v[4] >> ELSE << v[4], v[3], v[2], v[1] >>

\* NativeEndian::read_u32(&bytes[0..4])
NativeEndian_read_u32(e, bytes) ==
    IF e = "little" THEN << bytes[1], bytes[2], bytes[3], bytes[4] >>
    ELSE << bytes[4], bytes[3], bytes[2], bytes[1] >>

\* NativeEndian::write_u16(buf, n) for n: u16
NativeEndian_write_u16(e, n) ==
    IF e = "little" THEN << n % 256, (n \div 256) % 256 >>
    ELSE << (n \div 256) % 256, n % 256 >>

-----------------------------------------------------------------------------
(* Results.  Ok(v) / Err(e) are Result<T, E>; Panic(why) is a Rust panic   *)
(* (an unwrap of Err, an index out of bounds, a slice length mismatch).    *)

Ok(v) == [tag |-> "Ok", val |-> v]
Err(e) == [tag |-> "Err", err |-> e]
Panic(why) == [tag |-> "Panic", why |-> why]

-----------------------------------------------------------------------------
(* Checksum strategy: CRCHasherType, NoneHasher, CRCHasher::hash.          *)

CRCHasherType == {"NONE", "MD5", "MD4", "SHA1"}

DRCOM_DIAL_EXT_PROTO_CRC_INIT == 20000711

\* CRCHasherBuilder::from_mode(mode: u8)
from_mode(mode) ==
    CASE mode = 0 -> Ok("NONE")
      [] mode = 1 -> Ok("MD5")
      [] mode = 2 -> Ok("MD4")
      [] mode = 3 -> Ok("SHA1")
      [] OTHER    -> Err("ModeNotExist")

\* faulty variant of retain_postions: the tables of MD5 and MD4 exchanged
retain_postions_swapped(self) ==
    CASE self = "NONE" -> << 0, 1, 2, 3, 4, 5, 6, 7 >>
      [] self = "MD5"  -> << 1, 2, 8, 9, 4, 5, 11, 12 >>
      [] self = "MD4"  -> << 2, 3, 8, 9, 5, 6, 13, 14 >>
      [] self = "SHA1" -> << 2, 3, 9, 10, 5, 6, 15, 16 >>

\* CRCHasher::retain_postions(&self), 0-based digest offsets as in the source
retain_postions(self) ==
    CASE self = "NONE" -> << 0, 1, 2, 3, 4, 5, 6, 7 >>
      [] self = "MD5"  -> << 2, 3, 8, 9, 5, 6, 13, 14 >>
      [] self = "MD4"  -> << 1, 2, 8, 9, 4, 5, 11, 12 >>
      [] self = "SHA1" -> << 2, 3, 9, 10, 5, 6, 15, 16 >>

\* faulty variant of NoneHasher_finish: update folds the length of its input
\* into the second word
NoneHasher_finish_absorbing(e, bytes) ==
    NativeEndian_write_u32(e, U32(DRCOM_DIAL_EXT_PROTO_CRC_INIT))
        \o NativeEndian_write_u32(e, U32(XorBits(126, Len(bytes))))

\* NoneHasher: update ignores its input; finish writes the two constants
NoneHasher_finish(e, bytes) ==
    NativeEndian_write_u32(e, U32(DRCOM_DIAL_EXT_PROTO_CRC_INIT))
        \o NativeEndian_write_u32(e, U32(126))

\* crypto::hash (not in this file): the digest length of each algorithm
DigestLength(self) ==
    CASE self = "MD5" -> 16 [] self = "MD4" -> 16 [] self = "SHA1" -> 20

\* crypto::hash (not in this file): a stand-in for the digest of bytes, a
\* deterministic function of the algorithm and the whole input whose bytes
\* differ from position to position
Digest(self, bytes) ==
    LET salt == CASE self = "MD5" -> 91 [] self = "MD4" -> 37 [] self = "SHA1" -> 143
        RECURSIVE mix(_)
        mix(j) == IF j = 0 THEN Len(bytes) ELSE (31 * mix(j - 1) + bytes[j] + j) % 65521
    IN  [i \in 1..DigestLength(self) |-> (salt + 7 * i * i + (2 * i + 1) * mix(Len(bytes))) % 256]

\* self.hasher(), hasher.update(bytes), hasher.finish()
Hasher_finish(e, self, bytes) ==
    IF self = "NONE" THEN NoneHasher_finish(e, bytes) ELSE Digest(self, bytes)

\* the loop of CRCHasher::hash over retain_postions: offset i is skipped when
\* i > hashed_bytes.len(); hashed_bytes[i] panics when i = hashed_bytes.len()
RECURSIVE RetainLoop(_, _, _, _)
RetainLoop(hashed_bytes, positions, k, hashed) ==
    IF k > Len(positions) THEN Ok(hashed)
    ELSE IF positions[k] > Len(hashed_bytes)
         THEN RetainLoop(hashed_bytes, positions, k + 1, hashed)
    ELSE IF positions[k] >= Len(hashed_bytes)
         THEN Panic("index out of bounds")
    ELSE RetainLoop(hashed_bytes, positions, k + 1,
                    Append(hashed, hashed_bytes[positions[k] + 1]))

\* CRCHasher::hash, given what hasher.finish() returned and the retain table:
\* result.clone_from_slice(hashed) panics unless hashed holds exactly 8 bytes
CRCHasher_hash(hashed_bytes, positions) ==
    LET r == RetainLoop(hashed_bytes, positions, 1, << >>)
    IN  IF r.tag = "Panic" THEN r
        ELSE IF Len(r.val) # 8 THEN Panic("clone_from_slice: length mismatch")
        ELSE Ok(r.val)

\* CRCHasherType::hash(&self, bytes)
hash(e, self, bytes) == CRCHasher_hash(Hasher_finish(e, self, bytes), retain_postions(self))

-----------------------------------------------------------------------------
(* Fallback word-XOR checksum.                                             *)

None == [some |-> FALSE, val |-> U32(0)]
Some(v) == [some |-> TRUE, val |-> v]

RECURSIVE XorWords(_, _, _, _)
XorWords(e, bytes, c, result) ==
    IF c >= Len(bytes) \div 4 THEN result
    ELSE XorWords(e, bytes, c + 1,
                  XorU32(result, NativeEndian_read_u32(e, SubSeq(bytes, c * 4 + 1, c * 4 + 4))))

\* faulty variant of calculate_drcom_crc32: the accumulator always starts at 0
calculate_drcom_crc32_no_initial(e, bytes, initial) ==
    IF Len(bytes) % 4 # 0 THEN Err("InputLengthInvalid")
    ELSE Ok(XorWords(e, bytes, 0, U32(0)))

\* calculate_drcom_crc32(bytes, initial)
calculate_drcom_crc32(e, bytes, initial) ==
    IF Len(bytes) % 4 # 0 THEN Err("InputLengthInvalid")
    ELSE Ok(XorWords(e, bytes, 0, IF initial.some THEN initial.val ELSE U32(0)))

-----------------------------------------------------------------------------
(* common::drcom and common::reader (not in this file).                    *)

\* DrCOMCommon::code(): the opcode of the outgoing packets
code == 7

\* the opcode DrCOMResponseCommon::validate_packet expects
response_code == 77

\* ReaderHelper::read_bytes(n): exactly n bytes, or a read error
read_bytes(stream, n) ==
    IF Len(stream) < n THEN Err("ReadBytesError")
    ELSE Ok([bytes |-> SubSeq(stream, 1, n), rest |-> SubSeq(stream, n + 1, Len(stream))])

\* DrCOMResponseCommon::validate_packet: reads one byte and compares it with
\* the expected opcode
validate_packet(stream) ==
    LET r == read_bytes(stream, 1)
    IN  IF r.tag = "Err" THEN r
        ELSE IF r.val.bytes[1] # response_code THEN Err("ReadBytesError")
        ELSE Ok([rest |-> r.val.rest])

-----------------------------------------------------------------------------
(* Challenge request encoder.                                              *)

\* ChallengeRequest::new(sequence: Option<u8>); None is given as -1
ChallengeRequest_new(sequence) ==
    [sequence |-> IF sequence = -1 THEN 1 ELSE sequence]

ChallengeRequest_magic_number == 65544

\* buf[at..at + len(bytes)] = bytes (at is 0-based)
Overwrite(buf, at, bytes) ==
    [i \in 1..Len(buf) |-> IF i > at /\ i <= at + Len(bytes) THEN bytes[i - at] ELSE buf[i]]

Zeros(n) == [i \in 1..n |-> 0]

\* ChallengeRequest::as_bytes
ChallengeRequest_as_bytes(e, self) ==
    LET r0 == Zeros(8)
        r1 == Overwrite(r0, 0, << code >>)
        r2 == Overwrite(r1, 1, << self.sequence >>)
    IN  Overwrite(r2, 2, NativeEndian_write_u32(e, U32(ChallengeRequest_magic_number)))

-----------------------------------------------------------------------------
(* Challenge response decoder: the values computed by ChallengeResponse::  *)
(* from_bytes from the bytes it read.                                      *)

\* Ipv4Addr::from(u32): the octets a.b.c.d, a the most significant byte
Ipv4Addr_from(v) == << v[4], v[3], v[2], v[1] >>

\* u32::from(Ipv4Addr)
Ipv4Addr_to_u32(addr) == << addr[4], addr[3], addr[2], addr[1] >>

\* Ipv4Addr::octets
octets(addr) == addr

\* faulty variant of decode_challenge_seed: the seed read in network order
decode_challenge_seed_network(e, challenge_seed_bytes) ==
    NetworkEndian_read_u32(challenge_seed_bytes)

decode_challenge_seed(e, challenge_seed_bytes) ==
    NativeEndian_read_u32(e, challenge_seed_bytes)

decode_source_ip(source_ip_bytes) ==
    Ipv4Addr_from(NetworkEndian_read_u32(source_ip_bytes))

-----------------------------------------------------------------------------
(* Heartbeat request encoder.                                              *)

\* HeartbeatFlag::as_u32 (0x2a006200, 0x2a006300)
HeartbeatFlag_as_u32(flag) ==
    IF flag = "First" THEN U32(704668160) ELSE U32(704668416)

\* HeartbeatRequest::new; an absent Option<u8> is given as -1, an absent
\* mac_address as << >>
HeartbeatRequest_new(sequence, source_ip, flag, challenge_seed, type_id, uid_length, mac_address) ==
    [sequence       |-> sequence,
     type_id        |-> IF type_id = -1 THEN 3 ELSE type_id,
     uid_length     |-> IF uid_length = -1 THEN 0 ELSE uid_length,
     mac_address    |-> IF mac_address = << >> THEN Zeros(6) ELSE mac_address,
     source_ip      |-> source_ip,
     flag           |-> flag,
     challenge_seed |-> challenge_seed]

header_length == 1 + 1 + 2

content_length == 1 + 1 + 6 + 4 + 4 + 4

footer_length == 8 + 16 * 4

packet_length == header_length + content_length + footer_length

\* faulty variant of footer_padding: 16 bytes, the `* 4` forgotten
footer_padding_short == Zeros(16)

\* the padding appended to the footer: &[0u8; 16 * 4]
footer_padding == Zeros(16 * 4)

\* header_bytes of as_bytes
header_bytes(e, self) ==
    << code, self.sequence >> \o NativeEndian_write_u16(e, packet_length % 65536)

\* content_bytes of as_bytes
content_bytes(e, self) ==
    << self.type_id, self.uid_length >>
        \o self.mac_address
        \o octets(self.source_ip)
        \o NativeEndian_write_u32(e, HeartbeatFlag_as_u32(self.flag))
        \o NativeEndian_write_u32(e, self.challenge_seed)

\* faulty variant of hash_mode_byte: one residue per mode of CRCHasherType
hash_mode_byte_mod4(challenge_seed) == RemU32(challenge_seed, 4) % 256

\* (self.challenge_seed % 3) as u8
hash_mode_byte(challenge_seed) == RemU32(challenge_seed, 3) % 256

\* the multiplier of the fallback checksum
rehash_factor == 19680126

\* rehash_bytes of as_bytes: header, content and the 8 footer bytes so far
rehash_bytes(e, self, footer) == header_bytes(e, self) \o content_bytes(e, self) \o footer

\* faulty variant of rehash_value: a saturating product, 2^32 - 1 when the
\* full product does not fit 32 bits
rehash_value_saturating(crc) ==
    LET a == crc
        b == U32(rehash_factor)
        d(x, i) == IF i >= 1 /\ i <= 4 THEN x[i] ELSE 0
        col(k) == d(a, 1) * d(b, k) + d(a, 2) * d(b, k - 1) + d(a, 3) * d(b, k - 2)
                    + d(a, 4) * d(b, k - 3)
        s1 == col(1)
        s2 == col(2) + (s1 \div 256)
        s3 == col(3) + (s2 \div 256)
        s4 == col(4) + (s3 \div 256)
        s5 == col(5) + (s4 \div 256)
        s6 == col(6) + (s5 \div 256)
        s7 == col(7) + (s6 \div 256)
    IN  IF s5 % 256 # 0 \/ s6 % 256 # 0 \/ s7 # 0
        THEN << 255, 255, 255, 255 >>
        ELSE << s1 % 256, s2 % 256, s3 % 256, s4 % 256 >>

\* Wrapping(crc) * Wrapping(19680126)
rehash_value(crc) == WrappingMul(crc, U32(rehash_factor))

\* faulty variant of rehash_applies: the fallback checksum in every mode
rehash_applies_always(hash_mode) == TRUE

\* whether the `if let CRCHasherType::NONE = hash_mode` branch is taken
rehash_applies(hash_mode) == hash_mode = "NONE"

\* footer_bytes of as_bytes, before the padding; a failed unwrap panics
footer_bytes(e, self) ==
    LET mode == from_mode(hash_mode_byte(self.challenge_seed))
    IN  IF mode.tag = "Err" THEN Panic("unwrap: ModeNotExist")
        ELSE
        LET crc_hash_bytes == hash(e, mode.val, NativeEndian_write_u32(e, self.challenge_seed))
        IN  IF crc_hash_bytes.tag = "Panic" THEN crc_hash_bytes
            ELSE IF ~rehash_applies(mode.val) THEN Ok(crc_hash_bytes.val)
            ELSE
            LET crc == calculate_drcom_crc32(e, rehash_bytes(e, self, crc_hash_bytes.val), None)
            IN  IF crc.tag = "Err" THEN Panic("unwrap: InputLengthInvalid")
                ELSE Ok(Overwrite(Overwrite(crc_hash_bytes.val, 0,
                                            NativeEndian_write_u32(e, rehash_value(crc.val))),
                                  4, NativeEndian_write_u32(e, U32(0))))

\* HeartbeatRequest::as_bytes
HeartbeatRequest_as_bytes(e, self) ==
    LET footer == footer_bytes(e, self)
    IN  IF footer.tag = "Panic" THEN footer
        ELSE Ok(header_bytes(e, self) \o content_bytes(e, self) \o footer.val \o footer_padding)

\* the locals of as_bytes a caller cannot see: the mode chosen and the length
\* of the buffer handed to calculate_drcom_crc32 (-1 when it is not called)
HeartbeatRequest_locals(e, self) ==
    LET mode == from_mode(hash_mode_byte(self.challenge_seed))
        h == IF mode.tag = "Ok"
             THEN hash(e, mode.val, NativeEndian_write_u32(e, self.challenge_seed))
             ELSE Panic("unwrap: ModeNotExist")
    IN  [hash_mode  |-> mode,
         rehash_len |-> IF h.tag = "Ok" /\ rehash_applies(mode.val)
                        THEN Len(rehash_bytes(e, self, h.val)) ELSE -1]

-----------------------------------------------------------------------------
(* Inputs of the calls.                                                    *)

BufAlphabet == {1, 255}

\* b"1234567890" and b"1234567899999999", the buffers of the unit tests
TestBuf10 == << 49, 50, 51, 52, 53, 54, 55, 56, 57, 48 >>
TestBuf16 == << 49, 50, 51, 52, 53, 54, 55, 56, 57, 57, 57, 57, 57, 57, 57, 57 >>

Buffers ==
    UNION {[1..n -> BufAlphabet] : n \in 0..MaxBufLen} \cup {TestBuf10, TestBuf16}

\* challenge seeds: each residue modulo 3, small and large, with the top bit
\* set, and with four different bytes
Seeds ==
    {U32(0), U32(1), U32(2), U32(3), U32(20000711), << 4, 3, 2, 1 >>,
     << 0, 0, 0, 128 >>, << 254, 255, 255, 255 >>, << 255, 255, 255, 255 >>}

Addrs == {<< 10, 0, 0, 1 >>, << 192, 168, 1, 254 >>, << 0, 0, 0, 0 >>}

Initials == {None, Some(U32(0)), Some(<< 239, 190, 173, 222 >>)}

ReservedBytes == {Zeros(7), << 1, 2, 3, 4, 5, 6, 7 >>}

\* a challenge response as the gateway builds it: opcode, 7 reserved bytes,
\* the seed in the byte order of the target, the address in network order
ResponseStream(e, first, reserved, seed, addr) ==
    << first >> \o reserved \o NativeEndian_write_u32(e, seed)
        \o NetworkEndian_write_u32(Ipv4Addr_to_u32(addr))

\* the streams handed to from_bytes: a response with up to MaxTrail bytes
\* after it, cut at every length
Streams(e) ==
    { SubSeq(ResponseStream(e, first, reserved, seed, addr) \o [i \in 1..MaxTrail |-> 170], 1, n) :
        first \in {response_code, code}, reserved \in ReservedBytes,
        seed \in Seeds, addr \in Addrs, n \in 0..(16 + MaxTrail) }

HeartbeatRequests ==
    { HeartbeatRequest_new(sequence, source_ip, flag, challenge_seed, type_id, uid_length, mac_address) :
        sequence \in {0, 1, 255}, source_ip \in {<< 10, 0, 0, 1 >>, << 192, 168, 1, 254 >>},
        flag \in {"First", "NotFirst"}, challenge_seed \in Seeds,
        type_id \in {-1, 200}, uid_length \in {-1, 9},
        mac_address \in {<< >>, << 0, 17, 34, 51, 68, 85 >>} }

\* implementations of the CRCHasher trait beyond CRCHasherType: a digest of
\* any length up to MaxDigestLen and any retain table of 8 offsets
MaxDigestLen == 20

ImplDigest(n) == [i \in 1..n |-> (11 * i + 5) % 256]

ImplTables ==
    {retain_postions(t) : t \in CRCHasherType} \cup {[j \in 1..8 |-> j - 1 + k] : k \in 1..4}

-----------------------------------------------------------------------------
(* The state machine: one build (endian), one call per behaviour.  No      *)
(* state survives a call, so a call starts from the initial state only.    *)

NoValue == [tag |-> "None"]

Init ==
    /\ endian \in {"little", "big"}
    /\ pc = "ready"
    /\ op = "none"
    /\ args = NoValue
    /\ ret = NoValue
    /\ input = << >>
    /\ locals = NoValue

\* a call of a function that reads no stream: its result and what its
\* locals held
Returns(name, a, r, l) ==
    /\ pc' = "done"
    /\ op' = name
    /\ args' = a
    /\ ret' = r
    /\ locals' = l

Call_from_mode ==
    /\ pc = "ready"
    /\ \E mode \in 0..255 :
          Returns("from_mode", [mode |-> mode], from_mode(mode), NoValue)
    /\ UNCHANGED <<endian, input>>

Call_hash ==
    /\ pc = "ready"
    /\ \E self \in CRCHasherType, bytes \in Buffers :
          Returns("hash", [self |-> self, bytes |-> bytes], hash(endian, self, bytes), NoValue)
    /\ UNCHANGED <<endian, input>>

Call_CRCHasher_hash ==
    /\ pc = "ready"
    /\ \E n \in 0..MaxDigestLen, positions \in ImplTables :
          Returns("CRCHasher::hash", [hashed_bytes |-> ImplDigest(n), positions |-> positions],
                  CRCHasher_hash(ImplDigest(n), positions), NoValue)
    /\ UNCHANGED <<endian, input>>

Call_calculate_drcom_crc32 ==
    /\ pc = "ready"
    /\ \E bytes \in Buffers, initial \in Initials :
          Returns("calculate_drcom_crc32", [bytes |-> bytes, initial |-> initial],
                  calculate_drcom_crc32(endian, bytes, initial), NoValue)
    /\ UNCHANGED <<endian, input>>

Call_ChallengeRequest_as_bytes ==
    /\ pc = "ready"
    /\ \E sequence \in {-1, 0, 1, 255} :
          Returns("ChallengeRequest::as_bytes", [sequence |-> sequence],
                  Ok(ChallengeRequest_as_bytes(endian, ChallengeRequest_new(sequence))), NoValue)
    /\ UNCHANGED <<endian, input>>

Call_HeartbeatRequest_as_bytes ==
    /\ pc = "ready"
    /\ \E self \in HeartbeatRequests :
          Returns("HeartbeatRequest::as_bytes", [self |-> self],
                  HeartbeatRequest_as_bytes(endian, self), HeartbeatRequest_locals(endian, self))
    /\ UNCHANGED <<endian, input>>

\* ChallengeResponse::from_bytes, one action per read of the stream

Call_from_bytes ==
    /\ pc = "ready"
    /\ \E stream \in Streams(endian) :
          /\ args' = [stream |-> stream]
          /\ input' = stream
    /\ pc' = "validate_packet"
    /\ op' = "ChallengeResponse::from_bytes"
    /\ ret' = NoValue
    /\ locals' = NoValue
    /\ UNCHANGED endian

\* try!(Self::validate_packet(input))
from_bytes_validate_packet ==
    /\ pc = "validate_packet"
    /\ LET r == validate_packet(input)
       IN  IF r.tag = "Err"
           THEN /\ pc' = "done"
                /\ ret' = r
                /\ UNCHANGED input
           ELSE /\ pc' = "drain"
                /\ input' = r.val.rest
                /\ UNCHANGED ret
    /\ UNCHANGED <<endian, op, args, locals>>

\* faulty variant of from_bytes_drain: 3 bytes drained instead of 7
from_bytes_drain_short ==
    /\ pc = "drain"
    /\ LET r == read_bytes(input, 3)
       IN  IF r.tag = "Err"
           THEN /\ pc' = "done"
                /\ ret' = r
                /\ UNCHANGED input
           ELSE /\ pc' = "challenge_seed"
                /\ input' = r.val.rest
                /\ UNCHANGED ret
    /\ UNCHANGED <<endian, op, args, locals>>

\* try!(input.read_bytes(7))
from_bytes_drain ==
    /\ pc = "drain"
    /\ LET r == read_bytes(input, 7)
       IN  IF r.tag = "Err"
           THEN /\ pc' = "done"
                /\ ret' = r
                /\ UNCHANGED input
           ELSE /\ pc' = "challenge_seed"
                /\ input' = r.val.rest
                /\ UNCHANGED ret
    /\ UNCHANGED <<endian, op, args, locals>>

\* challenge_seed = NativeEndian::read_u32(&try!(input.read_bytes(4)))
from_bytes_challenge_seed ==
    /\ pc = "challenge_seed"
    /\ LET r == read_bytes(input, 4)
       IN  IF r.tag = "Err"
           THEN /\ pc' = "done"
                /\ ret' = r
                /\ UNCHANGED <<input, locals>>
           ELSE /\ pc' = "source_ip"
                /\ input' = r.val.rest
                /\ locals' = [challenge_seed |-> decode_challenge_seed(endian, r.val.bytes)]
                /\ UNCHANGED ret
    /\ UNCHANGED <<endian, op, args>>

\* source_ip = Ipv4Addr::from(NetworkEndian::read_u32(&try!(input.read_bytes(4))))
\* and the Ok(ChallengeResponse { .. }) that ends from_bytes
from_bytes_source_ip ==
    /\ pc = "source_ip"
    /\ LET r == read_bytes(input, 4)
       IN  IF r.tag = "Err"
           THEN /\ pc' = "done"
                /\ ret' = r
                /\ UNCHANGED input
           ELSE /\ pc' = "done"
                /\ input' = r.val.rest
                /\ ret' = Ok([challenge_seed |-> locals.challenge_seed,
                              source_ip |-> decode_source_ip(r.val.bytes)])
    /\ UNCHANGED <<endian, op, args, locals>>

Next ==
    \/ Call_from_mode
    \/ Call_hash
    \/ Call_CRCHasher_hash
    \/ Call_calculate_drcom_crc32
    \/ Call_ChallengeRequest_as_bytes
    \/ Call_HeartbeatRequest_as_bytes
    \/ Call_from_bytes
    \/ from_bytes_validate_packet
    \/ from_bytes_drain
    \/ from_bytes_challenge_seed
    \/ from_bytes_source_ip

Spec == Init /\ [][Next]_vars

-----------------------------------------------------------------------------
(* Reference computations used to state the properties, written            *)
(* independently of the definitions above.                                 *)

BitOf(x, k) == (x \div (2 ^ k)) % 2

\* the byte whose bit k is the parity of bit k over the bytes buf[p], buf[p + 4], ...
ColumnParity(buf, p) ==
    LET col == {j \in 1..Len(buf) : j % 4 = p % 4}
        bit(k) == Cardinality({j \in col : BitOf(buf[j], k) = 1}) % 2
    IN  bit(0) + 2 * bit(1) + 4 * bit(2) + 8 * bit(3)
          + 16 * bit(4) + 32 * bit(5) + 64 * bit(6) + 128 * bit(7)

\* the xor of the consecutive 4-byte words of buf, as 4 bytes in buffer order
FoldWords(buf) == [p \in 1..4 |-> ColumnParity(buf, p)]

\* x * n modulo 2^32 for a u32 x and a number n below 2^31: the schoolbook
\* product of the base-16 digits, the digits of weight 16^8 and above dropped
TimesMod32(x, n) ==
    LET xd == [i \in 1..8 |-> IF i % 2 = 1 THEN x[(i + 1) \div 2] % 16 ELSE x[i \div 2] \div 16]
        nd == [i \in 1..8 |-> (n \div (16 ^ (i - 1))) % 16]
        RECURSIVE col(_, _)
        col(k, i) == IF i > k THEN 0 ELSE xd[i] * nd[k + 1 - i] + col(k, i + 1)
        RECURSIVE sum(_)
        sum(k) == IF k = 0 THEN 0 ELSE col(k, 1) + (sum(k - 1) \div 16)
    IN  [j \in 1..4 |-> (sum(2 * j - 1) % 16) + 16 * (sum(2 * j) % 16)]

\* a u32 modulo 3: 256 is 1 modulo 3, so the digits may be summed
Mod3(v) == (v[1] + v[2] + v[3] + v[4]) % 3

\* the 8 bytes of (20000711, 126) in the byte order of the target
NoneDigest(e) ==
    IF e = "little" THEN << 199, 47, 49, 1, 126, 0, 0, 0 >>
    ELSE << 1, 49, 47, 199, 0, 0, 0, 126 >>

\* the retain tables and digest lengths as the specification lists them
TableOf(mode) ==
    CASE mode = "NONE" -> << 0, 1, 2, 3, 4, 5, 6, 7 >>
      [] mode = "MD5"  -> << 2, 3, 8, 9, 5, 6, 13, 14 >>
      [] mode = "MD4"  -> << 1, 2, 8, 9, 4, 5, 11, 12 >>
      [] mode = "SHA1" -> << 2, 3, 9, 10, 5, 6, 15, 16 >>

DigestLengthOf(mode) ==
    CASE mode = "NONE" -> 8 [] mode = "MD5" -> 16 [] mode = "MD4" -> 16 [] mode = "SHA1" -> 20

IsHeartbeat == op = "HeartbeatRequest::as_bytes"

-----------------------------------------------------------------------------
(* Properties.                                                             *)

\* C1: every HeartbeatRequest encodes to exactly 96 bytes, and bytes[2..4],
\* read as a 16-bit unsigned integer in the byte order of the target, are 96:
\* the declared length is the number of bytes emitted.
C1_HeartbeatLength ==
    IsHeartbeat =>
        /\ ret.tag = "Ok"
        /\ Len(ret.val) = 96
        /\ (IF endian = "little" THEN ret.val[3] + 256 * ret.val[4]
            ELSE 256 * ret.val[3] + ret.val[4]) = Len(ret.val)

\* a request whose seed selects MD4 (4294967294 mod 3 = 2) was encoded to 96
\* bytes
C1_Witness ==
    /\ IsHeartbeat
    /\ args.self.challenge_seed = << 254, 255, 255, 255 >>
    /\ args.self.flag = "NotFirst"
    /\ ret.tag = "Ok"
    /\ Len(ret.val) = 96

\* C2: when challenge_seed mod 3 = 0, bytes[24..28] are the native-order
\* encoding of (X * 19680126) mod 2^32, X the xor of the eight native-order
\* words of header(4) || content(20) || hash(None, seed bytes)(8), and
\* bytes[28..32] are zero; the product wraps and never faults.
C2_FallbackChecksum ==
    (IsHeartbeat /\ Mod3(args.self.challenge_seed) = 0) =>
        /\ ret.tag = "Ok"
        /\ LET X == NativeEndian_read_u32(endian,
                        FoldWords(SubSeq(ret.val, 1, 24) \o NoneDigest(endian)))
           IN  SubSeq(ret.val, 25, 28) = NativeEndian_write_u32(endian, TimesMod32(X, 19680126))
        /\ SubSeq(ret.val, 29, 32) = << 0, 0, 0, 0 >>

\* on a little-endian target, sequence 1, 10.0.0.1, First, seed 2^32 - 1 and
\* the defaults: X = 3584996168, X * 19680126 exceeds 2^32 and wraps to the
\* bytes 112, 85, 226, 114
C2_Witness ==
    /\ IsHeartbeat
    /\ endian = "little"
    /\ ret.tag = "Ok"
    /\ SubSeq(ret.val, 1, 32) =
         << 7, 1, 96, 0, 3, 0, 0, 0, 0, 0, 0, 0, 10, 0, 0, 1, 0, 98, 0, 42,
            255, 255, 255, 255, 112, 85, 226, 114, 0, 0, 0, 0 >>

\* C3: when challenge_seed mod 3 is 1 (MD5) or 2 (MD4) the fallback checksum
\* is skipped: bytes[24..32] are hash(mode, native-order seed bytes) unchanged,
\* a function of the seed alone, so requests that differ only in the other
\* fields have the same bytes[24..32].
C3_HashStandsAsIs ==
    (IsHeartbeat /\ Mod3(args.self.challenge_seed) # 0) =>
        /\ ret.tag = "Ok"
        /\ LET mode == IF Mod3(args.self.challenge_seed) = 1 THEN "MD5" ELSE "MD4"
               digest == Digest(mode, NativeEndian_write_u32(endian, args.self.challenge_seed))
           IN  SubSeq(ret.val, 25, 32) = [k \in 1..8 |-> digest[TableOf(mode)[k] + 1]]

\* a request with seed 1 (MD5) and none of the defaults was encoded
C3_Witness ==
    /\ IsHeartbeat
    /\ args.self.challenge_seed = << 1, 0, 0, 0 >>
    /\ args.self.sequence = 255
    /\ args.self.type_id = 200
    /\ args.self.mac_address = << 0, 17, 34, 51, 68, 85 >>
    /\ ret.tag = "Ok"
    /\ SubSeq(ret.val, 25, 32) # SubSeq(ret.val, 33, 40)

\* C4: as_bytes is total: the mode handed to from_mode is challenge_seed mod 3,
\* so from_mode succeeds with None, MD5 or MD4 and never SHA1; the buffer
\* handed to calculate_drcom_crc32 in the None branch has length 32; no unwrap
\* panics.
C4_EncoderTotal ==
    IsHeartbeat =>
        /\ ret.tag = "Ok"
        /\ locals.hash_mode.tag = "Ok"
        /\ locals.hash_mode.val =
             (CASE Mod3(args.self.challenge_seed) = 0 -> "NONE"
                [] Mod3(args.self.challenge_seed) = 1 -> "MD5"
                [] Mod3(args.self.challenge_seed) = 2 -> "MD4")
        /\ locals.hash_mode.val = "NONE" <=> locals.rehash_len # -1
        /\ locals.rehash_len \in {-1, 32}

\* on a big-endian target a request with seed 2^32 - 1 (mod 3 = 0) chose None
\* and handed 32 bytes to calculate_drcom_crc32
C4_Witness ==
    /\ IsHeartbeat
    /\ endian = "big"
    /\ args.self.challenge_seed = << 255, 255, 255, 255 >>
    /\ locals.hash_mode = Ok("NONE")
    /\ locals.rehash_len = 32
    /\ ret.tag = "Ok"

\* C5: for every mode and every buffer, hash returns exactly 8 bytes, byte k
\* being byte T[k] of the mode's digest of the buffer, T the retain table of
\* the mode in table order; the digests are 8, 16, 16 and 20 bytes long.
C5_HashRetains ==
    op = "hash" =>
        LET digest == Hasher_finish(endian, args.self, args.bytes)
        IN  /\ Len(digest) = DigestLengthOf(args.self)
            /\ ret.tag = "Ok"
            /\ Len(ret.val) = 8
            /\ \A k \in 1..8 : ret.val[k] = digest[TableOf(args.self)[k] + 1]

\* hash(SHA1, b"1234567890") returned 8 bytes, the last one byte 16 of the
\* digest
C5_Witness ==
    /\ op = "hash"
    /\ args.self = "SHA1"
    /\ args.bytes = TestBuf10
    /\ ret.tag = "Ok"
    /\ Len(ret.val) = 8
    /\ ret.val[8] = Digest("SHA1", TestBuf10)[17]

\* C6: hash(None, buf) does not depend on buf: for every buffer, the empty
\* one included, it is the native-order encoding of 20000711 followed by the
\* native-order encoding of 126.
C6_NoneConstant ==
    (op = "hash" /\ args.self = "NONE") => ret = Ok(NoneDigest(endian))

\* hash(None, b"") on a little-endian target returned the bytes of the unit
\* test
C6_Witness ==
    /\ op = "hash"
    /\ args.self = "NONE"
    /\ args.bytes = << >>
    /\ endian = "little"
    /\ ret = Ok(<< 199, 47, 49, 1, 126, 0, 0, 0 >>)

\* C7: calculate_drcom_crc32 returns InputLengthInvalid exactly when the
\* length is not a multiple of 4; otherwise it succeeds with initial (0 when
\* absent) xored with every consecutive native-order word, so an empty buffer
\* returns initial unchanged.
C7_Crc32 ==
    op = "calculate_drcom_crc32" =>
        LET start == IF args.initial.some THEN args.initial.val ELSE << 0, 0, 0, 0 >>
        IN  /\ ret.tag = "Err" <=> Len(args.bytes) % 4 # 0
            /\ ret.tag = "Err" => ret.err = "InputLengthInvalid"
            /\ ret.tag = "Ok" =>
                 NativeEndian_write_u32(endian, ret.val)
                   = FoldWords(NativeEndian_write_u32(endian, start) \o args.bytes)
            /\ args.bytes = << >> => ret = Ok(start)

\* the unit test: b"1234567899999999" with no initial value folds to
\* 201589764 on a little-endian target
C7_Witness ==
    /\ op = "calculate_drcom_crc32"
    /\ endian = "little"
    /\ args.bytes = TestBuf16
    /\ ~args.initial.some
    /\ ret = Ok(U32(201589764))

\* C8: for every seed s, address a and 7 reserved bytes, from_bytes on
\* opcode || reserved || s (native order) || a (big-endian) succeeds with
\* challenge_seed = s and source_ip = a, whatever the reserved bytes.
C8_RoundTrip ==
    (op = "ChallengeResponse::from_bytes" /\ pc = "done") =>
        \A s \in Seeds, a \in Addrs, r \in ReservedBytes :
            (/\ Len(args.stream) >= 16
             /\ SubSeq(args.stream, 1, 16) = ResponseStream(endian, response_code, r, s, a))
            => ret = Ok([challenge_seed |-> s, source_ip |-> a])

\* the response for seed 0x01020304 and 192.168.1.254 with nonzero reserved
\* bytes was decoded on a little-endian target
C8_Witness ==
    /\ op = "ChallengeResponse::from_bytes"
    /\ pc = "done"
    /\ endian = "little"
    /\ args.stream = << 77, 1, 2, 3, 4, 5, 6, 7, 4, 3, 2, 1, 192, 168, 1, 254 >>
    /\ ret = Ok([challenge_seed |-> << 4, 3, 2, 1 >>, source_ip |-> << 192, 168, 1, 254 >>])

\* bytes of the stream read so far by from_bytes
Consumed == Len(args.stream) - Len(input)

\* C9: from_bytes returns a read error and no ChallengeResponse whenever the
\* first byte is not the response opcode or the stream holds fewer than 16
\* bytes; the opcode, the 7 reserved bytes, the 4 seed bytes and the 4 address
\* bytes are read in that order, the first failing read ends the decode, and a
\* result is produced only after all 16 bytes were read.
C9_DecodeErrors ==
    op = "ChallengeResponse::from_bytes" =>
        /\ pc = "validate_packet" => Consumed = 0
        /\ pc = "drain" => Consumed = 1
        /\ pc = "challenge_seed" => Consumed = 8
        /\ pc = "source_ip" => Consumed = 12
        /\ pc # "done" => ret = NoValue
        /\ pc = "done" =>
             /\ ret.tag \in {"Ok", "Err"}
             /\ ret.tag = "Err" <=>
                  (Len(args.stream) < 16 \/ args.stream[1] # response_code)
             /\ ret.tag = "Ok" => Consumed = 16
             /\ ret.tag = "Err" =>
                  /\ ret.err = "ReadBytesError"
                  /\ \/ Consumed = 0 /\ (Len(input) < 1 \/ input[1] # response_code)
                     \/ Consumed = 1 /\ Len(input) < 7
                     \/ Consumed = 8 /\ Len(input) < 4
                     \/ Consumed = 12 /\ Len(input) < 4

\* a stream with the right opcode that ends inside the address (14 bytes)
\* was refused after the seed had been read
C9_Witness ==
    /\ op = "ChallengeResponse::from_bytes"
    /\ pc = "done"
    /\ Len(args.stream) = 14
    /\ args.stream[1] = response_code
    /\ ret = Err("ReadBytesError")
    /\ Consumed = 12
    /\ locals # NoValue

\* C10: in CRCHasher::hash, for any digest length and any retain table, an
\* offset that is not a valid index of the digest is skipped, the digest is
\* never indexed out of range, and the operation fails only because the
\* number of bytes collected differs from 8.
C10_OffsetsSkipped ==
    op = "CRCHasher::hash" =>
        LET n == Len(args.hashed_bytes)
            kept == SelectSeq(args.positions, LAMBDA i : i < n)
        IN  IF Len(kept) = 8
            THEN ret = Ok([k \in 1..8 |-> args.hashed_bytes[kept[k] + 1]])
            ELSE ret = Panic("clone_from_slice: length mismatch")

====
